---- MODULE Spec2Model ----
(***************************************************************************)
(* Model of the answer extraction and grading core of the SAT worksheet    *)
(* autograder (src/src/grader.js, the definitions of lines 240-473):       *)
(* scanAnswerPairs, ensureManual, parseKeyText, parseStudentAnswers and    *)
(* grade.                                                                   *)
(*                                                                         *)
(* A text is represented by the sequence of matches that the scanner's     *)
(* regular expression finds in it, in text order: each match holds the     *)
(* digits of the question number and the letter captured as the answer.    *)
(* Where the pattern itself matters, the text is a sequence of characters  *)
(* and the matches are computed from it (matchAll).                        *)
(* A JavaScript Map is an insertion-ordered sequence of [k, v] entries, a  *)
(* JavaScript Set an insertion-ordered duplicate-free sequence.            *)
(***************************************************************************)
EXTENDS Integers, Sequences, FiniteSets, TLC

\* ------------------------------------------------------------------ bounds

\* Question numbers written in the texts are 1..MaxQuestion.
MaxQuestion == 3
\* A student text holds at most MaxEntries matches.
MaxEntries == 3
\* A key text holds at most MaxKeyEntries matches.
MaxKeyEntries == 3
\* Texts behind the results handed to grade in the argument-shape runs.
MaxShapeEntries == 1

\* --------------------------------------------------------- strings, numbers

VALID_CHOICES == {"A", "B", "C", "D", "E"}

LowerCase ==
  <<"a", "b", "c", "d", "e", "f", "g", "h", "i", "j", "k", "l", "m",
    "n", "o", "p", "q", "r", "s", "t", "u", "v", "w", "x", "y", "z">>

UpperCase ==
  <<"A", "B", "C", "D", "E", "F", "G", "H", "I", "J", "K", "L", "M",
    "N", "O", "P", "Q", "R", "S", "T", "U", "V", "W", "X", "Y", "Z">>

\* The letter is kept as it is written.
ToUpperCase_Keep(c) == c

\* String.prototype.toUpperCase on a one-letter string.
ToUpperCase(c) ==
  IF \E i \in 1..Len(LowerCase) : LowerCase[i] = c
    THEN UpperCase[CHOOSE i \in 1..Len(LowerCase) : LowerCase[i] = c]
    ELSE c

\* The UTF-16 code unit order of the letters (upper case first), the order
\* Array.prototype.sort() without a comparator puts one-letter strings in.
CodeUnit(c) ==
  IF \E i \in 1..Len(UpperCase) : UpperCase[i] = c
    THEN CHOOSE i \in 1..Len(UpperCase) : UpperCase[i] = c
    ELSE Len(UpperCase) + (CHOOSE i \in 1..Len(LowerCase) : LowerCase[i] = c)

\* Number.parseInt(numberRaw, 10) on a string of decimal digits.
RECURSIVE ParseInt(_)
ParseInt(digits) ==
  IF digits = <<>>
    THEN 0
    ELSE ParseInt(SubSeq(digits, 1, Len(digits) - 1)) * 10 + digits[Len(digits)]

Range(s) == {s[i] : i \in 1..Len(s)}

\* ------------------------------------------------------------ Map and Set

Undefined == "undefined"

MapHas(m, k) == \E i \in 1..Len(m) : m[i].k = k

MapIndex(m, k) == CHOOSE i \in 1..Len(m) : m[i].k = k

MapGet(m, k) == IF MapHas(m, k) THEN m[MapIndex(m, k)].v ELSE Undefined

MapSet(m, k, v) ==
  IF MapHas(m, k)
    THEN [m EXCEPT ![MapIndex(m, k)] = [k |-> k, v |-> v]]
    ELSE Append(m, [k |-> k, v |-> v])

MapDelete(m, k) == SelectSeq(m, LAMBDA e : e.k # k)

MapKeys(m) == {m[i].k : i \in 1..Len(m)}

\* The element is added also when it is there already, as to an array.
SetAdd_Push(s, x) == Append(s, x)

SetAdd(s, x) == IF x \in Range(s) THEN s ELSE Append(s, x)

\* ------------------------------------------------------- scanAnswerPairs

\* The ways a question number is written: one digit, or with a leading zero.
NumberRaws == {<<d>> : d \in 1..MaxQuestion} \cup {<<0, 1>>}

\* The letters written as answers: valid ones in either case, and one
\* outside A-E.
AnswerRaws == {"a", "B", "g"}

RawMatches == [numberRaw : NumberRaws, answerRaw : AnswerRaws]

\* The texts of at most n matches.
TextsUpTo(n) == UNION {[1..k -> RawMatches] : k \in 0..n}

\* One match turned into a pair (the body of matches.forEach).
MatchToPair(match) ==
  [question |-> ParseInt(match.numberRaw),
   answer |-> ToUpperCase(match.answerRaw),
   needsManualReview |-> FALSE]

\* A sort that is not stable: x goes in front of the pairs of its question.
InsertPair_Unstable(s, x) ==
  LET n == Cardinality({i \in 1..Len(s) : s[i].question < x.question})
  IN SubSeq(s, 1, n) \o <<x>> \o SubSeq(s, n + 1, Len(s))

\* Where the pair x goes in the sorted sequence s: behind every pair whose
\* question is not larger (pairs.sort is stable).
InsertPair(s, x) ==
  LET n == Cardinality({i \in 1..Len(s) : s[i].question <= x.question})
  IN SubSeq(s, 1, n) \o <<x>> \o SubSeq(s, n + 1, Len(s))

RECURSIVE SortPairs(_)
SortPairs(s) ==
  IF s = <<>>
    THEN <<>>
    ELSE InsertPair(SortPairs(SubSeq(s, 1, Len(s) - 1)), s[Len(s)])

scanAnswerPairs(text) ==
  SortPairs([i \in 1..Len(text) |-> MatchToPair(text[i])])

\* ---------------------------------------------------------- ensureManual

\* The entry is made anew on every call.
ensureManual_Anew(manualMap, question) ==
  MapSet(manualMap, question,
         [question |-> question, answers |-> <<>>, reasons |-> <<>>])

ensureManual(manualMap, question) ==
  IF MapHas(manualMap, question)
    THEN manualMap
    ELSE MapSet(manualMap, question,
                [question |-> question, answers |-> <<>>, reasons |-> <<>>])

\* manualEntry.reasons.add(reason) on the entry of question.
AddReason(manualMap, question, reason) ==
  LET i == MapIndex(manualMap, question)
  IN [manualMap EXCEPT ![i].v.reasons = SetAdd(@, reason)]

\* manualEntry.answers.add(answer) on the entry of question.
AddAnswer(manualMap, question, answer) ==
  LET i == MapIndex(manualMap, question)
  IN [manualMap EXCEPT ![i].v.answers = SetAdd(@, answer)]

\* ---------------------------------------------------------- parseKeyText

KeyStep(keyMap, entry) ==
  IF entry.answer \notin VALID_CHOICES
    THEN keyMap
    ELSE IF ~MapHas(keyMap, entry.question)
      THEN MapSet(keyMap, entry.question, entry.answer)
      ELSE keyMap

RECURSIVE KeyLoop(_, _)
KeyLoop(keyMap, entries) ==
  IF entries = <<>>
    THEN keyMap
    ELSE KeyLoop(KeyStep(keyMap, Head(entries)), Tail(entries))

parseKeyText(text) == KeyLoop(<<>>, scanAnswerPairs(text))

\* --------------------------------------------------- parseStudentAnswers

NonStandard == "Non-standard answer format"
OutsideAE == "Answer outside A-E"
Duplicate == "Duplicate answers provided"
NoKeyEntry == "No answer key entry for this question"

\* The five branches of the loop body; st holds answerMap and manualMap.
FlaggedBranch(st, entry) ==
  LET m == ensureManual(st.manualMap, entry.question)
  IN [st EXCEPT !.manualMap =
        AddAnswer(AddReason(m, entry.question, NonStandard),
                  entry.question, entry.answer)]

\* The letter outside A-E is skipped without a manual-review entry.
OutsideBranch_Drop(st, entry) == st

OutsideBranch(st, entry) ==
  LET m == ensureManual(st.manualMap, entry.question)
  IN [st EXCEPT !.manualMap =
        AddAnswer(AddReason(m, entry.question, OutsideAE),
                  entry.question, entry.answer)]

\* The late answer is also recorded as a duplicate.
AlreadyManualBranch_Reason(st, entry) ==
  [st EXCEPT !.manualMap =
     AddAnswer(AddReason(@, entry.question, Duplicate),
               entry.question, entry.answer)]

AlreadyManualBranch(st, entry) ==
  [st EXCEPT !.manualMap = AddAnswer(@, entry.question, entry.answer)]

\* The second answer is flagged, the first stays in the clean answers.
DuplicateBranch_KeepClean(st, entry) ==
  LET m == ensureManual(st.manualMap, entry.question)
      withReason == AddReason(m, entry.question, Duplicate)
  IN [st EXCEPT !.manualMap = AddAnswer(withReason, entry.question, entry.answer)]

DuplicateBranch(st, entry) ==
  LET m == ensureManual(st.manualMap, entry.question)
      withReason == AddReason(m, entry.question, Duplicate)
      withFirst == AddAnswer(withReason, entry.question,
                             MapGet(st.answerMap, entry.question))
  IN [answerMap |-> MapDelete(st.answerMap, entry.question),
      manualMap |-> AddAnswer(withFirst, entry.question, entry.answer)]

CleanBranch(st, entry) ==
  [st EXCEPT !.answerMap = MapSet(@, entry.question, entry.answer)]

ReconcileStep(st, entry) ==
  IF entry.needsManualReview THEN FlaggedBranch(st, entry)
  ELSE IF entry.answer \notin VALID_CHOICES THEN OutsideBranch(st, entry)
  ELSE IF MapHas(st.manualMap, entry.question) THEN AlreadyManualBranch(st, entry)
  ELSE IF MapHas(st.answerMap, entry.question) THEN DuplicateBranch(st, entry)
  ELSE CleanBranch(st, entry)

\* The value returned: the clean Map and the manual-review entries as a list.
ReconcilerResult(st) ==
  [answers |-> st.answerMap,
   manualReview |-> [i \in 1..Len(st.manualMap) |-> st.manualMap[i].v]]

RECURSIVE ReconcileLoop(_, _)
ReconcileLoop(st, entries) ==
  IF entries = <<>>
    THEN st
    ELSE ReconcileLoop(ReconcileStep(st, Head(entries)), Tail(entries))

parseStudentAnswers(text) ==
  ReconcilerResult(ReconcileLoop([answerMap |-> <<>>, manualMap |-> <<>>],
                                 scanAnswerPairs(text)))

\* ------------------------------------------------------------------ grade

\* JavaScript values as they reach grade: a kind and, per kind, the content.
JSNull == [kind |-> "null"]
JSUndefined == [kind |-> "undefined"]
JSString(chars) == [kind |-> "string", chars |-> chars]
JSMap(m) == [kind |-> "Map", entries |-> m]
JSArray(a) == [kind |-> "Array", items |-> a]
JSPlainObject == [kind |-> "object"]

\* !value
Falsy(v) ==
  \/ v.kind \in {"null", "undefined"}
  \/ v.kind = "string" /\ v.chars = <<>>

\* value.name, for a value that is not null or undefined.
Prop(v, name) ==
  IF v.kind = "object" /\ name \in DOMAIN v THEN v[name] ELSE JSUndefined

\* skipMissing = false as the parameter's default.
SkipMissingDefault(arg) == IF arg = "omitted" THEN FALSE ELSE arg = "true"

KeyIsMap(key) == key.kind = "Map"

\* Only the null check, without the check of answers.
StudentIsResult_Truthy(studentAnswers) == ~Falsy(studentAnswers)

StudentIsResult(studentAnswers) ==
  ~Falsy(studentAnswers) /\ Prop(studentAnswers, "answers").kind = "Map"

\* new Map(iterable): a copy of a Map, the empty Map for undefined or null;
\* a value that is not iterable is a TypeError.
NewMapThrows(v) == v.kind \notin {"Map", "undefined", "null"}

NewMap(v) == IF v.kind = "Map" THEN v.entries ELSE <<>>

\* new Set(array)
RECURSIVE NewSet(_)
NewSet(a) ==
  IF a = <<>> THEN <<>> ELSE SetAdd(NewSet(SubSeq(a, 1, Len(a) - 1)), a[Len(a)])

\* new Map(studentAnswers.manualReview.map((item) => [item.question, {...}]))
RECURSIVE ManualFromList(_)
ManualFromList(items) ==
  IF items = <<>>
    THEN <<>>
    ELSE LET item == items[Len(items)]
         IN MapSet(ManualFromList(SubSeq(items, 1, Len(items) - 1)),
                   item.question,
                   [question |-> item.question,
                    answers |-> NewSet(item.answers),
                    reasons |-> NewSet(item.reasons)])

\* Deletion that shifts the later entries one position down, as on an array,
\* while the iterator moves on.
DeleteWhileIterating_Shift(slots, i) ==
  [slots |-> SubSeq(slots, 1, i - 1) \o SubSeq(slots, i + 1, Len(slots)),
   next |-> i + 1]

\* answerMap.delete(question) inside for (... of answerMap.entries()): the
\* Map's entry list keeps its positions, the deleted entry is emptied in
\* place, and the iterator goes on at the next position.
DeleteWhileIterating(slots, i) ==
  [slots |-> [slots EXCEPT ![i].live = FALSE], next |-> i + 1]

LiveEntries(slots) ==
  LET live == SelectSeq(slots, LAMBDA e : e.live)
  IN [i \in 1..Len(live) |-> [k |-> live[i].k, v |-> live[i].v]]

\* The cross-check of the clean answers against the key.
RECURSIVE CrossCheck(_, _, _, _)
CrossCheck(key, slots, manual, i) ==
  IF i > Len(slots)
    THEN [answerMap |-> LiveEntries(slots), manualMap |-> manual]
  ELSE IF ~slots[i].live
    THEN CrossCheck(key, slots, manual, i + 1)
  ELSE IF ~MapHas(key, slots[i].k)
    THEN LET question == slots[i].k
             m == ensureManual(manual, question)
             after == DeleteWhileIterating(slots, i)
         IN CrossCheck(key, after.slots,
                       AddAnswer(AddReason(m, question, NoKeyEntry),
                                 question, slots[i].v),
                       after.next)
  ELSE CrossCheck(key, slots, manual, i + 1)

\* No key question is skipped.
InManualReview_Never(manualQuestions, question) == FALSE

InManualReview(manualQuestions, question) == question \in manualQuestions

\* Only the empty string counts as no answer.
NoAnswer_EmptyOnly(studentAnswer) == studentAnswer = ""

\* !studentAnswer, for what answerMap.get returns.
NoAnswer(studentAnswer) == studentAnswer = Undefined \/ studentAnswer = ""

\* The missing branch without its continue: an unanswered question is listed
\* as missing and as incorrect.
GradeQuestion_FallThrough(acc, question, correctAnswer, manualQuestions, answers) ==
  IF question \in manualQuestions
    THEN acc
    ELSE LET studentAnswer == MapGet(answers, question)
             seen == IF studentAnswer = Undefined
                       THEN [acc EXCEPT !.missing = Append(@, question)]
                       ELSE acc
         IN IF studentAnswer = correctAnswer
              THEN [seen EXCEPT !.correct = @ + 1]
              ELSE [seen EXCEPT !.incorrect =
                      Append(@, [question |-> question,
                                 correctAnswer |-> correctAnswer,
                                 studentAnswer |-> studentAnswer])]

\* The entry of a wrong answer holds the two letters the wrong way round.
GradeQuestion_Swapped(acc, question, correctAnswer, manualQuestions, answers) ==
  IF InManualReview(manualQuestions, question)
    THEN acc
    ELSE LET studentAnswer == MapGet(answers, question)
         IN IF NoAnswer(studentAnswer)
              THEN [acc EXCEPT !.missing = Append(@, question)]
            ELSE IF studentAnswer = correctAnswer
              THEN [acc EXCEPT !.correct = @ + 1]
            ELSE [acc EXCEPT !.incorrect =
                    Append(@, [question |-> question,
                               correctAnswer |-> studentAnswer,
                               studentAnswer |-> correctAnswer])]

\* The body of for (const [question, correctAnswer] of key.entries()).
GradeQuestion(acc, question, correctAnswer, manualQuestions, answers) ==
  IF InManualReview(manualQuestions, question)
    THEN acc
    ELSE LET studentAnswer == MapGet(answers, question)
         IN IF NoAnswer(studentAnswer)
              THEN [acc EXCEPT !.missing = Append(@, question)]
            ELSE IF studentAnswer = correctAnswer
              THEN [acc EXCEPT !.correct = @ + 1]
            ELSE [acc EXCEPT !.incorrect =
                    Append(@, [question |-> question,
                               correctAnswer |-> correctAnswer,
                               studentAnswer |-> studentAnswer])]

RECURSIVE GradeLoop(_, _, _)
GradeLoop(key, manualQuestions, answers) ==
  IF key = <<>>
    THEN [correct |-> 0, incorrect |-> <<>>, missing |-> <<>>]
    ELSE LET last == key[Len(key)]
         IN GradeQuestion(GradeLoop(SubSeq(key, 1, Len(key) - 1),
                                    manualQuestions, answers),
                          last.k, last.v, manualQuestions, answers)

\* The missing questions are taken off whatever skipMissing says.
Denominator_AlwaysSkip(skipMissing, total, missingCount) == total - missingCount

\* With skipMissing only the missing questions are counted.
Denominator_MissingOnly(skipMissing, total, missingCount) ==
  IF skipMissing THEN missingCount ELSE total

Denominator(skipMissing, total, missingCount) ==
  IF skipMissing THEN total - missingCount ELSE total

RECURSIVE Gcd(_, _)
Gcd(a, b) == IF b = 0 THEN a ELSE Gcd(b, a % b)

\* A JavaScript number as a fraction in lowest terms; x / 0 is Infinity
\* (1/0) for x > 0 and NaN (0/0) for x = 0.
Divide(a, b) ==
  IF b = 0
    THEN [num |-> IF a = 0 THEN 0 ELSE 1, den |-> 0]
    ELSE [num |-> a \div Gcd(a, b), den |-> b \div Gcd(a, b)]

Zero == [num |-> 0, den |-> 1]

\* The division without the denominator > 0 guard.
Percent_NoGuard(correct, denominator) == Divide(correct * 100, denominator)

Percent(correct, denominator) ==
  IF denominator > 0 THEN Divide(correct * 100, denominator) ELSE Zero

\* Where x goes in the sorted sequence s: behind every element that does not
\* rank above it (Array.prototype.sort is stable).
InsertBy(s, x, Rank(_)) ==
  LET rx == Rank(x)
      n == Cardinality({i \in 1..Len(s) : Rank(s[i]) <= rx})
  IN SubSeq(s, 1, n) \o <<x>> \o SubSeq(s, n + 1, Len(s))

\* Array.from(item.answers).sort()
RECURSIVE SortAnswers(_)
SortAnswers(s) ==
  IF s = <<>>
    THEN <<>>
    ELSE InsertBy(SortAnswers(SubSeq(s, 1, Len(s) - 1)), s[Len(s)], CodeUnit)

ItemQuestion(item) == item.question

\* .sort((a, b) => a.question - b.question)
RECURSIVE SortItems(_)
SortItems(s) ==
  IF s = <<>>
    THEN <<>>
    ELSE InsertBy(SortItems(SubSeq(s, 1, Len(s) - 1)), s[Len(s)], ItemQuestion)

Identity(x) == x

\* The numbers are left in the order they come in.
SortNumbers_Unsorted(s) == s

\* .sort((a, b) => a - b)
RECURSIVE SortNumbers(_)
SortNumbers(s) ==
  IF s = <<>>
    THEN <<>>
    ELSE InsertBy(SortNumbers(SubSeq(s, 1, Len(s) - 1)), s[Len(s)], Identity)

\* The manualReview list of the report.
ManualReviewOut(manual) ==
  SortItems([i \in 1..Len(manual) |->
               [question |-> manual[i].v.question,
                answers |-> SortAnswers(manual[i].v.answers),
                reasons |-> manual[i].v.reasons]])

\* Only the questions with a clean answer are listed.
AttemptedOut_CleanOnly(answers, manualReview) ==
  SortNumbers([i \in 1..Len(answers) |-> answers[i].k])

\* The attemptedQuestions list of the report.
AttemptedOut(answers, manualReview) ==
  SortNumbers(NewSet([i \in 1..Len(answers) |-> answers[i].k]
                     \o [i \in 1..Len(manualReview) |-> manualReview[i].question]))

\* grade, once its arguments have passed the two checks.
GradeReport(key, studentAnswers, skipMissing) ==
  LET copied == NewMap(Prop(studentAnswers, "answers"))
      slots == [i \in 1..Len(copied) |->
                  [k |-> copied[i].k, v |-> copied[i].v, live |-> TRUE]]
      checked == CrossCheck(key, slots,
                            ManualFromList(Prop(studentAnswers, "manualReview").items), 1)
      manualQuestions == MapKeys(checked.manualMap)
      acc == GradeLoop(key, manualQuestions, checked.answerMap)
      total == Len(key)
      missingCount == Len(acc.missing)
      incorrectCount == Len(acc.incorrect)
      denominator == Denominator(skipMissing, total, missingCount)
      manualReview == ManualReviewOut(checked.manualMap)
  IN [total |-> total,
      correct |-> acc.correct,
      incorrect |-> acc.incorrect,
      incorrectCount |-> incorrectCount,
      missing |-> acc.missing,
      missingCount |-> missingCount,
      manualReview |-> manualReview,
      manualReviewCount |-> Len(manualReview),
      denominator |-> denominator,
      percent |-> Percent(acc.correct, denominator),
      attemptedQuestions |-> AttemptedOut(checked.answerMap, manualReview)]

Throw(name, message) ==
  [threw |-> TRUE, error |-> [name |-> name, message |-> message]]

\* grade with skipMissing also clearing the missing list.
grade_SkipHidesMissing(key, studentAnswers, skipMissing) ==
  IF ~KeyIsMap(key)
    THEN Throw("Error", "grade expected key to be a Map<int, string>")
  ELSE IF ~StudentIsResult(studentAnswers)
    THEN Throw("Error", "grade expected studentAnswers from parseStudentAnswers")
  ELSE IF NewMapThrows(Prop(studentAnswers, "answers"))
    THEN Throw("TypeError", "object is not iterable")
  ELSE IF Prop(studentAnswers, "manualReview").kind # "Array"
    THEN Throw("TypeError", "studentAnswers.manualReview.map is not a function")
  ELSE LET report == GradeReport(key.entries, studentAnswers,
                                 SkipMissingDefault(skipMissing))
       IN [threw |-> FALSE,
           report |-> IF SkipMissingDefault(skipMissing)
                        THEN [report EXCEPT !.missing = <<>>, !.missingCount = 0]
                        ELSE report]

grade(key, studentAnswers, skipMissing) ==
  IF ~KeyIsMap(key)
    THEN Throw("Error", "grade expected key to be a Map<int, string>")
  ELSE IF ~StudentIsResult(studentAnswers)
    THEN Throw("Error", "grade expected studentAnswers from parseStudentAnswers")
  ELSE IF NewMapThrows(Prop(studentAnswers, "answers"))
    THEN Throw("TypeError", "object is not iterable")
  ELSE IF Prop(studentAnswers, "manualReview").kind # "Array"
    THEN Throw("TypeError", "studentAnswers.manualReview.map is not a function")
  ELSE [threw |-> FALSE,
        report |-> GradeReport(key.entries, studentAnswers,
                               SkipMissingDefault(skipMissing))]

\* The object parseStudentAnswers returns, as a JavaScript value.
JSResult(result) ==
  [kind |-> "object",
   answers |-> JSMap(result.answers),
   manualReview |-> JSArray(result.manualReview)]

SkipMissingArgs == {"true", "false", "omitted"}

\* The key files of the worksheet catalog: the texts of at most MaxKeyEntries
\* lines of one answer sheet, whose answers alternate between a and B.
KeyFileMatches ==
  {[numberRaw |-> <<q>>, answerRaw |-> IF q % 2 = 1 THEN "a" ELSE "B"] :
     q \in 1..MaxQuestion}

KeyFiles == UNION {[1..k -> KeyFileMatches] : k \in 0..MaxKeyEntries}

\* KEY_BANK: the key that parseKeyText builds from each key file.
Keys == {parseKeyText(raw) : raw \in KeyFiles}

\* ------------------------------------------------------------------ state

VARIABLES
  pc,         \* where the run stands
  keyText,    \* a key text, as its matches in text order
  key,        \* the Map parseKeyText built from keyText
  text,       \* the student text, as its matches in text order
  entries,    \* parseStudentAnswers: the scanned pairs
  idx,        \* parseStudentAnswers: the number of pairs processed
  answerMap,  \* parseStudentAnswers: the clean answers
  manualMap,  \* parseStudentAnswers: the manual-review entries
  worksheets, \* the keys of the worksheet catalog
  student,    \* the value parseStudentAnswers returned
  call,       \* the arguments of the call of grade
  result,     \* what the call of grade gave: a report or an error
  source,     \* the text handed to a parser, as a JavaScript value
  history     \* what the calls of grade gave so far, oldest first

vars == <<pc, keyText, key, worksheets, text, entries, idx, answerMap, manualMap,
          student, call, result, source, history>>

NoStudent == [answers |-> <<>>, manualReview |-> <<>>]

Init ==
  /\ worksheets = Keys
  /\ pc = "start"
  /\ keyText = <<>>
  /\ key = <<>>
  /\ text \in TextsUpTo(MaxEntries)
  /\ entries = <<>>
  /\ idx = 0
  /\ answerMap = <<>>
  /\ manualMap = <<>>
  /\ student = NoStudent
  /\ call = <<>>
  /\ result = <<>>
  /\ source = <<>>
  /\ history = <<>>

\* parseStudentAnswers up to the loop: the two Maps and the scan.
Scan ==
  /\ pc = "start"
  /\ pc' = "reconcile"
  /\ entries' = scanAnswerPairs(text)
  /\ idx' = 0
  /\ answerMap' = <<>>
  /\ manualMap' = <<>>
  /\ UNCHANGED <<keyText, key, worksheets, text, student, call, result, source, history>>

\* One iteration of for (const entry of entries).
Reconcile ==
  /\ pc = "reconcile"
  /\ idx < Len(entries)
  /\ LET st == ReconcileStep([answerMap |-> answerMap, manualMap |-> manualMap],
                             entries[idx + 1])
     IN /\ answerMap' = st.answerMap
        /\ manualMap' = st.manualMap
  /\ idx' = idx + 1
  /\ UNCHANGED <<pc, keyText, key, worksheets, text, entries, student, call, result,
                 source, history>>

\* The end of parseStudentAnswers: the result is built and returned.
Return ==
  /\ pc = "reconcile"
  /\ idx = Len(entries)
  /\ pc' = "parsed"
  /\ student' = ReconcilerResult([answerMap |-> answerMap, manualMap |-> manualMap])
  /\ text' = <<>>
  /\ entries' = <<>>
  /\ idx' = 0
  /\ answerMap' = <<>>
  /\ manualMap' = <<>>
  /\ UNCHANGED <<keyText, key, worksheets, call, result, source, history>>

\* handleGrade: the parsed submission is graded against a worksheet's key.
Grade ==
  /\ pc = "parsed"
  /\ \E k \in worksheets, skipMissing \in SkipMissingArgs :
       /\ call' = [key |-> JSMap(k),
                   studentAnswers |-> JSResult(student),
                   skipMissing |-> skipMissing]
       /\ result' = grade(JSMap(k), JSResult(student), skipMissing)
  /\ pc' = "graded"
  /\ history' = Append(history, result')
  /\ UNCHANGED <<keyText, key, worksheets, text, entries, idx, answerMap, manualMap,
                 student, source>>

Next == Scan \/ Reconcile \/ Return \/ Grade

Spec == Init /\ [][Next]_vars

\* ------------------------------------------- parseStudentAnswers on its own

InitParse ==
  /\ worksheets = {}
  /\ pc = "start"
  /\ keyText = <<>>
  /\ key = <<>>
  /\ text \in TextsUpTo(MaxEntries)
  /\ entries = <<>>
  /\ idx = 0
  /\ answerMap = <<>>
  /\ manualMap = <<>>
  /\ student = NoStudent
  /\ call = <<>>
  /\ result = <<>>
  /\ source = <<>>
  /\ history = <<>>

NextParse == Scan \/ Reconcile \/ Return

SpecParse == InitParse /\ [][NextParse]_vars

\* ------------------------------------------------ parseKeyText on its own

InitKey ==
  /\ pc = "keyfile"
  /\ keyText \in TextsUpTo(MaxKeyEntries)
  /\ key = <<>>
  /\ worksheets = {}
  /\ text = <<>>
  /\ entries = <<>>
  /\ idx = 0
  /\ answerMap = <<>>
  /\ manualMap = <<>>
  /\ student = NoStudent
  /\ call = <<>>
  /\ result = <<>>
  /\ source = <<>>
  /\ history = <<>>

\* A worksheet is loaded: const key = parseKeyText(raw).
LoadKey ==
  /\ pc = "keyfile"
  /\ key' = parseKeyText(keyText)
  /\ worksheets' = {key'}
  /\ pc' = "loaded"
  /\ UNCHANGED <<keyText, text, entries, idx, answerMap, manualMap, student,
                 call, result, source, history>>

NextKey == LoadKey

SpecKey == InitKey /\ [][NextKey]_vars

\* ------------------------------------- grade called with any arguments

KeyShapes == {"Map", "null", "undefined", "object", "text"}

StudentShapes ==
  {"result", "null", "undefined", "text", "emptyText", "answersMap",
   "answersMissing", "answersObject", "manualReviewMissing"}

\* What a caller passes as key.
KeyArg(shape, k) ==
  CASE shape = "Map" -> JSMap(k)
    [] shape = "null" -> JSNull
    [] shape = "undefined" -> JSUndefined
    [] shape = "object" -> JSPlainObject
    [] shape = "text" -> JSString(<<"1", ".", "A">>)

\* What a caller passes as studentAnswers.
StudentArg(shape, r) ==
  CASE shape = "result" -> JSResult(r)
    [] shape = "null" -> JSNull
    [] shape = "undefined" -> JSUndefined
    [] shape = "text" -> JSString(<<"1", ")", "a">>)
    [] shape = "emptyText" -> JSString(<<>>)
    [] shape = "answersMap" -> JSMap(r.answers)
    [] shape = "answersMissing" ->
         [kind |-> "object", manualReview |-> JSArray(r.manualReview)]
    [] shape = "answersObject" ->
         [kind |-> "object", answers |-> JSPlainObject,
          manualReview |-> JSArray(r.manualReview)]
    [] shape = "manualReviewMissing" ->
         [kind |-> "object", answers |-> JSMap(r.answers)]

InitShape ==
  /\ worksheets = {parseKeyText(t) : t \in TextsUpTo(MaxShapeEntries)}
  /\ student \in {parseStudentAnswers(t) : t \in TextsUpTo(MaxShapeEntries)}
  /\ pc = "parsed"
  /\ keyText = <<>>
  /\ key = <<>>
  /\ text = <<>>
  /\ entries = <<>>
  /\ idx = 0
  /\ answerMap = <<>>
  /\ manualMap = <<>>
  /\ call = <<>>
  /\ result = <<>>
  /\ source = <<>>
  /\ history = <<>>

GradeAny ==
  /\ pc = "parsed"
  /\ \E k \in worksheets, keyShape \in KeyShapes, studentShape \in StudentShapes,
        skipMissing \in SkipMissingArgs :
       /\ call' = [key |-> KeyArg(keyShape, k),
                   studentAnswers |-> StudentArg(studentShape, student),
                   skipMissing |-> skipMissing]
       /\ result' = grade(KeyArg(keyShape, k), StudentArg(studentShape, student),
                          skipMissing)
  /\ pc' = "graded"
  /\ history' = Append(history, result')
  /\ UNCHANGED <<keyText, key, worksheets, text, entries, idx, answerMap, manualMap,
                 student, source>>

NextShape == GradeAny

SpecShape == InitShape /\ [][NextShape]_vars

\* ------------------------------------------- the scanner's pattern on a text

\* A text handed to a parser holds at most MaxChars characters.
MaxChars == 5
\* A text that is parsed and then graded holds at most MaxSheetChars.
MaxSheetChars == 3

\* \d{1,3} and [...]{1,3}
MaxDigits == 3
MaxSeparators == 3

DigitChars == <<"0", "1", "2", "3", "4", "5", "6", "7", "8", "9">>

\* \d
Digit == Range(DigitChars)

DigitValue(c) == (CHOOSE i \in 1..Len(DigitChars) : DigitChars[i] = c) - 1

\* \s
Space == {" ", "\t", "\n", "\r"}

\* [A-Za-z]
Letter == Range(LowerCase) \cup Range(UpperCase)

\* A separator group without the closing brackets.
Separator_NoBracket == {":", ".", "-", "endash", "emdash"}

\* [:.)\]\-..] of the separator group; the two dashes outside ASCII are
\* written by name.
Separator == {":", ".", ")", "]", "-", "endash", "emdash"}

\* The letter may also be followed by another letter.
Follow_OrLetter ==
  Space \cup {")", ".", ",", ";", ":", "-", "endash", "emdash"} \cup Letter

\* What may follow the letter of a separated answer:
\* (?=[\s\n\r]|$|[\s).,;:\-..]), the end of the text apart.
Follow == Space \cup {")", ".", ",", ";", ":", "-", "endash", "emdash"}

\* The characters the texts are written with: digits, a blank, a separator,
\* an opening parenthesis (a character of no class) and two valid letters.
Alphabet == {"0", "1", " ", ")", "(", "a", "B"}

\* The length of the run of characters of class that starts at position i.
Run(s, i, class) ==
  CHOOSE n \in 0..(Len(s) + 1 - i) :
    /\ \A j \in i..(i + n - 1) : s[j] \in class
    /\ i + n > Len(s) \/ s[i + n] \notin class

\* text ?? ''
Coalesce(value) ==
  IF value.kind \in {"null", "undefined"} THEN JSString(<<>>) ELSE value

\* The text is used as it comes.
ToSource_Raw(value) == value

\* const source = String(text ?? '')
ToSource(value) == Coalesce(value)

\* !source.trim()
Blank(src) == \A i \in 1..Len(src.chars) : src.chars[i] \in Space

\* The match of the pattern that starts at position i of s, if there is one.
\* The classes of the pattern are disjoint where they meet, so each greedy
\* quantifier takes the whole run in front of it: the digits (a run of more
\* than three cannot start a match), the white space, the separators (a run
\* of more than three fails) and the white space behind them. Without a
\* separator character, white space or nothing stands between the number
\* and the letter; the second alternative, which alone allows nothing,
\* wants white space or the end of the text behind the letter.
MatchAt(s, i) ==
  LET d == Run(s, i, Digit)
      j == i + d
      a == Run(s, j, Space)
      p == Run(s, j + a, Separator)
      b == IF p > 0 THEN Run(s, j + a + p, Space) ELSE 0
      l == j + a + p + b
      letter == l <= Len(s) /\ s[l] \in Letter
      first == /\ p \in 1..MaxSeparators \/ (p = 0 /\ a > 0)
               /\ l = Len(s) \/ s[l + 1] \in Follow
      second == /\ p = 0
                /\ l = Len(s) \/ s[l + 1] \in Space
  IN IF d \in 1..MaxDigits /\ letter /\ (first \/ second)
       THEN [found |-> TRUE,
             numberRaw |-> [n \in 1..d |-> DigitValue(s[i + n - 1])],
             answerRaw |-> s[l],
             end |-> l + 1]
       ELSE [found |-> FALSE]

\* The matches from position i on, each search starting behind the last match.
RECURSIVE MatchFrom(_, _)
MatchFrom(s, i) ==
  IF i > Len(s)
    THEN <<>>
    ELSE LET m == MatchAt(s, i)
         IN IF m.found
              THEN <<[numberRaw |-> m.numberRaw, answerRaw |-> m.answerRaw]>>
                     \o MatchFrom(s, m.end)
              ELSE MatchFrom(s, i + 1)

\* Array.from(source.matchAll(pattern))
matchAll(s) == MatchFrom(s, 1)

\* scanAnswerPairs up to its list of matches: the source, the return on a
\* blank source, and the matches. source.trim is a TypeError on a value
\* that is not a string.
scanSource(value) ==
  LET src == ToSource(value)
  IN IF src.kind # "string"
       THEN Throw("TypeError", "source.trim is not a function")
     ELSE IF Blank(src)
       THEN [threw |-> FALSE, matches |-> <<>>]
     ELSE [threw |-> FALSE, matches |-> matchAll(src.chars)]

\* The values a caller passes as text.
SourceTexts(n) ==
  {JSNull, JSUndefined}
    \cup {JSString(chars) : chars \in UNION {[1..k -> Alphabet] : k \in 0..n}}

InitSource ==
  /\ pc = "text"
  /\ source \in SourceTexts(MaxChars)
  /\ worksheets = {}
  /\ keyText = <<>>
  /\ key = <<>>
  /\ text = <<>>
  /\ entries = <<>>
  /\ idx = 0
  /\ answerMap = <<>>
  /\ manualMap = <<>>
  /\ student = NoStudent
  /\ call = <<>>
  /\ result = <<>>
  /\ history = <<>>

\* parseStudentAnswers(text) on a text as it is written.
ParseStudentText ==
  /\ pc = "text"
  /\ LET scanned == scanSource(source)
     IN IF scanned.threw
          THEN /\ pc' = "failed"
               /\ result' = scanned
               /\ student' = student
          ELSE /\ pc' = "parsed"
               /\ result' = result
               /\ student' = parseStudentAnswers(scanned.matches)
  /\ UNCHANGED <<keyText, key, worksheets, text, entries, idx, answerMap, manualMap,
                 call, source, history>>

\* parseKeyText(text) on a text as it is written.
ParseKeyText ==
  /\ pc = "text"
  /\ LET scanned == scanSource(source)
     IN IF scanned.threw
          THEN /\ pc' = "failed"
               /\ result' = scanned
               /\ key' = key
          ELSE /\ pc' = "loaded"
               /\ result' = result
               /\ key' = parseKeyText(scanned.matches)
  /\ UNCHANGED <<keyText, worksheets, text, entries, idx, answerMap, manualMap,
                 student, call, source, history>>

NextSource == ParseStudentText \/ ParseKeyText

SpecSource == InitSource /\ [][NextSource]_vars

\* --------------------------------------- a written text parsed and graded

InitSheet ==
  /\ worksheets = Keys
  /\ pc = "text"
  /\ source \in SourceTexts(MaxSheetChars)
  /\ keyText = <<>>
  /\ key = <<>>
  /\ text = <<>>
  /\ entries = <<>>
  /\ idx = 0
  /\ answerMap = <<>>
  /\ manualMap = <<>>
  /\ student = NoStudent
  /\ call = <<>>
  /\ result = <<>>
  /\ history = <<>>

NextSheet == ParseStudentText \/ Grade

SpecSheet == InitSheet /\ [][NextSheet]_vars

\* ------------------------------------------ grade's effect on its arguments

\* The texts of the submissions that are graded twice hold at most
\* MaxTwiceEntries matches.
MaxTwiceEntries == 2

\* The submissions that are graded twice: a valid letter and one outside A-E.
TwiceTexts ==
  UNION {[1..k -> [numberRaw : NumberRaws, answerRaw : {"a", "g"}]] :
           k \in 0..MaxTwiceEntries}

\* The object is used itself.
ObjectOfCopy_Same(original) == original

\* new Map(iterable), new Set(iterable): the object that is built is a new
\* one, whatever the iterable is.
ObjectOfCopy(original) == "new"

\* The loop takes the entries out of the key as it visits them.
KeyAfter_Consumed(keyMap) == JSMap(<<>>)

\* The key once grade has returned: grade reads it (has, entries, size) and
\* calls nothing that writes to it.
KeyAfter(keyMap) == keyMap

\* The arguments once grade has returned. The cross-check deletes from
\* answerMap and adds to the entries of manualMap; these writes reach
\* studentAnswers only where the written object is the argument's own.
ArgumentsAfter(keyMap, studentAnswers) ==
  LET copied == NewMap(Prop(studentAnswers, "answers"))
      slots == [i \in 1..Len(copied) |->
                  [k |-> copied[i].k, v |-> copied[i].v, live |-> TRUE]]
      items == Prop(studentAnswers, "manualReview").items
      checked == CrossCheck(keyMap.entries, slots, ManualFromList(items), 1)
      written(i) == MapGet(checked.manualMap, items[i].question)
  IN [key |-> KeyAfter(keyMap),
      studentAnswers |->
        [studentAnswers EXCEPT
           !.answers =
             IF ObjectOfCopy("studentAnswers.answers") = "new"
               THEN @
               ELSE JSMap(checked.answerMap),
           !.manualReview =
             IF ObjectOfCopy("item.answers, item.reasons") = "new"
               THEN @
               ELSE JSArray([i \in 1..Len(items) |->
                               [question |-> items[i].question,
                                answers |-> written(i).answers,
                                reasons |-> written(i).reasons]])]]

\* The reconciler result behind the JavaScript value.
ResultOf(value) ==
  [answers |-> value.answers.entries, manualReview |-> value.manualReview.items]

InitTwice ==
  /\ worksheets = Keys
  /\ pc = "submitted"
  /\ keyText = <<>>
  /\ key = <<>>
  /\ text \in TwiceTexts
  /\ entries = <<>>
  /\ idx = 0
  /\ answerMap = <<>>
  /\ manualMap = <<>>
  /\ student = NoStudent
  /\ call = <<>>
  /\ result = <<>>
  /\ source = <<>>
  /\ history = <<>>

\* handleGrade: the submitted text is parsed and graded against the selected
\* key; key and student hold the two argument objects after the call.
HandleGrade ==
  /\ pc = "submitted"
  /\ \E parsedAnswers \in {JSResult(parseStudentAnswers(text))} :
     \E k \in worksheets :
     \E after \in {ArgumentsAfter(JSMap(k), parsedAnswers)} :
     \E skipMissing \in SkipMissingArgs :
       /\ call' = [key |-> JSMap(k),
                   studentAnswers |-> parsedAnswers,
                   skipMissing |-> skipMissing]
       /\ result' = grade(JSMap(k), parsedAnswers, skipMissing)
       /\ key' = after.key.entries
       /\ student' = ResultOf(after.studentAnswers)
       /\ worksheets' = (worksheets \ {k}) \cup {key'}
  /\ history' = Append(history, result')
  /\ pc' = "graded"
  /\ UNCHANGED <<keyText, text, entries, idx, answerMap, manualMap, source>>

\* handleGrade once more with nothing changed: the same text is parsed again
\* and graded against the same key object with the same skipMissing.
HandleGradeAgain ==
  /\ pc = "graded"
  /\ \E parsedAnswers \in {JSResult(parseStudentAnswers(text))} :
     \E after \in {ArgumentsAfter(JSMap(key), parsedAnswers)} :
       /\ call' = [key |-> JSMap(key),
                   studentAnswers |-> parsedAnswers,
                   skipMissing |-> call.skipMissing]
       /\ result' = grade(JSMap(key), parsedAnswers, call.skipMissing)
       /\ key' = after.key.entries
       /\ student' = ResultOf(after.studentAnswers)
       /\ worksheets' = (worksheets \ {key}) \cup {key'}
  /\ history' = Append(history, result')
  /\ pc' = "rerun"
  /\ UNCHANGED <<keyText, text, entries, idx, answerMap, manualMap, source>>

\* grade once more on the objects of the first call: the same reconciler
\* result, the same key, the same skipMissing.
GradeAgain ==
  /\ pc = "graded"
  /\ \E after \in {ArgumentsAfter(JSMap(key), JSResult(student))} :
       /\ result' = grade(JSMap(key), JSResult(student), call.skipMissing)
       /\ key' = after.key.entries
       /\ student' = ResultOf(after.studentAnswers)
       /\ worksheets' = (worksheets \ {key}) \cup {key'}
  /\ history' = Append(history, result')
  /\ pc' = "regraded"
  /\ UNCHANGED <<keyText, text, entries, idx, answerMap, manualMap, call, source>>

NextTwice == HandleGrade \/ HandleGradeAgain \/ GradeAgain

SpecTwice == InitTwice /\ [][NextTwice]_vars

\* ------------------------------------- grade on a key built by the caller

\* The keys a caller builds with new Map([[question, letter], ...]): at most
\* MaxKeyEntries entries in any order, no question twice.
HandBuiltKeys ==
  {m \in UNION {[1..n -> [k : 1..MaxQuestion, v : {"A", "B"}]] :
                  n \in 0..MaxKeyEntries} :
     \A i, j \in 1..Len(m) : m[i].k = m[j].k => i = j}

InitBuiltKey ==
  /\ worksheets = HandBuiltKeys
  /\ student \in {parseStudentAnswers(t) : t \in TextsUpTo(MaxShapeEntries)}
  /\ pc = "parsed"
  /\ keyText = <<>>
  /\ key = <<>>
  /\ text = <<>>
  /\ entries = <<>>
  /\ idx = 0
  /\ answerMap = <<>>
  /\ manualMap = <<>>
  /\ call = <<>>
  /\ result = <<>>
  /\ source = <<>>
  /\ history = <<>>

NextBuiltKey == Grade

SpecBuiltKey == InitBuiltKey /\ [][NextBuiltKey]_vars

\* --------------------------------- a text graded against itself as the key

\* The characters of the texts that serve as key and as submission: two
\* digits, a blank, a separator, a valid letter and one outside A-E.
SelfAlphabet == {"1", "2", " ", ")", "a", "g"}

SelfTexts ==
  {JSString(chars) : chars \in UNION {[1..n -> SelfAlphabet] : n \in 0..MaxChars}}

InitSelf ==
  /\ pc = "text"
  /\ source \in SelfTexts
  /\ worksheets = {}
  /\ keyText = <<>>
  /\ key = <<>>
  /\ text = <<>>
  /\ entries = <<>>
  /\ idx = 0
  /\ answerMap = <<>>
  /\ manualMap = <<>>
  /\ student = NoStudent
  /\ call = <<>>
  /\ result = <<>>
  /\ history = <<>>

\* grade({ key: parseKeyText(text), studentAnswers: parseStudentAnswers(text),
\* skipMissing }) on one text.
GradeSelf ==
  /\ pc = "text"
  /\ \E scanned \in {scanSource(source)} :
     \E k \in {parseKeyText(scanned.matches)} :
     \E parsedAnswers \in {parseStudentAnswers(scanned.matches)} :
     \E skipMissing \in SkipMissingArgs :
       /\ key' = k
       /\ worksheets' = {k}
       /\ student' = parsedAnswers
       /\ call' = [key |-> JSMap(k),
                   studentAnswers |-> JSResult(parsedAnswers),
                   skipMissing |-> skipMissing]
       /\ result' = grade(JSMap(k), JSResult(parsedAnswers), skipMissing)
  /\ history' = Append(history, result')
  /\ pc' = "graded"
  /\ UNCHANGED <<keyText, text, entries, idx, answerMap, manualMap, source>>

NextSelf == GradeSelf

SpecSelf == InitSelf /\ [][NextSelf]_vars

\* ----------------------------------------------------------------- claims

\* The loop of parseStudentAnswers has processed every pair.
LoopDone == pc = "reconcile" /\ idx = Len(entries)

Graded == pc = "graded" /\ ~result.threw

KeyOfCall == call.key.entries
KeyQuestions == MapKeys(KeyOfCall)
CleanOfCall == call.studentAnswers.answers.entries
ManualOfCall == call.studentAnswers.manualReview.items

IncorrectQuestions ==
  {result.report.incorrect[i].question : i \in 1..Len(result.report.incorrect)}
MissingQuestions == Range(result.report.missing)
ManualQuestionsOut ==
  {result.report.manualReview[i].question : i \in 1..Len(result.report.manualReview)}

\* The manualReview entry of the report for question q.
ManualItem(q) ==
  result.report.manualReview[
    CHOOSE i \in 1..Len(result.report.manualReview) :
      result.report.manualReview[i].question = q]

\* C1: when parseStudentAnswers has processed all candidates, every question
\* number that occurs in a candidate is in exactly one of the clean answers
\* map and the manual-review entries.
C1_Partition ==
  LoopDone =>
    \A i \in 1..Len(text) :
      LET q == ParseInt(text[i].numberRaw)
      IN MapHas(answerMap, q) # MapHas(manualMap, q)

\* C2: every question of the key is in exactly one bucket of the report:
\* counted correct, listed in incorrect, listed in missing, or in
\* manualReview; so correct + incorrectCount + missingCount + (manualReview
\* entries whose question is in the key) = total = key size.
C2_KeyCoverage ==
  Graded =>
    LET r == result.report
        manualInKey == ManualQuestionsOut \cap KeyQuestions
        listed == IncorrectQuestions \cup MissingQuestions \cup manualInKey
    IN /\ r.incorrectCount = Len(r.incorrect)
       /\ r.missingCount = Len(r.missing)
       /\ Cardinality(IncorrectQuestions) = r.incorrectCount
       /\ Cardinality(MissingQuestions) = r.missingCount
       /\ Cardinality(ManualQuestionsOut) = Len(r.manualReview)
       /\ IncorrectQuestions \subseteq KeyQuestions
       /\ MissingQuestions \subseteq KeyQuestions
       /\ IncorrectQuestions \cap MissingQuestions = {}
       /\ IncorrectQuestions \cap manualInKey = {}
       /\ MissingQuestions \cap manualInKey = {}
       /\ r.correct = Cardinality(KeyQuestions \ listed)
       /\ r.correct + r.incorrectCount + r.missingCount + Cardinality(manualInKey)
            = r.total
       /\ r.total = Len(KeyOfCall)

C2_Witness ==
  /\ Graded
  /\ result.report.correct = 1
  /\ result.report.incorrectCount = 1
  /\ result.report.missingCount + Cardinality(ManualQuestionsOut \cap KeyQuestions) = 1

\* C3: total is the key size, and denominator is total - missingCount when
\* skipMissing is true and total when it is false or omitted; questions in
\* manual review are not taken off.
C3_Denominator ==
  Graded =>
    LET r == result.report
    IN /\ r.total = Len(KeyOfCall)
       /\ call.skipMissing = "true" => r.denominator = r.total - r.missingCount
       /\ call.skipMissing \in {"false", "omitted"} => r.denominator = r.total

C3_Witness ==
  /\ Graded
  /\ call.skipMissing = "true"
  /\ result.report.missingCount = 1
  /\ Cardinality(ManualQuestionsOut \cap KeyQuestions) = 1
  /\ result.report.denominator = result.report.total - 1

\* C4: with a denominator of 0 grade returns a report whose percent is 0 and
\* raises nothing; with a positive denominator percent is
\* correct / denominator * 100.
C4_Percent ==
  pc = "graded" =>
    /\ ~result.threw
    /\ LET r == result.report
       IN /\ r.denominator = 0 => r.percent = Zero
          /\ r.denominator > 0 =>
               /\ r.percent.den > 0
               /\ r.percent.num * r.denominator = r.correct * 100 * r.percent.den

C4_Witness ==
  /\ Graded
  /\ call.skipMissing = "true"
  /\ result.report.total > 0
  /\ result.report.denominator = 0
  /\ result.report.percent = Zero

\* The studentAnswers argument has the shape of a reconciler result.
WellFormedStudent(v) ==
  /\ v.kind = "object"
  /\ "answers" \in DOMAIN v
  /\ v.answers.kind = "Map"
  /\ "manualReview" \in DOMAIN v
  /\ v.manualReview.kind = "Array"

\* C5: grade raises an error and returns no report whenever key is not a Map
\* or studentAnswers is not a reconciler result (null, undefined, raw text,
\* an object whose answers is not a Map or that has no manualReview list).
C5_Rejects ==
  (pc = "graded" /\ (call.key.kind # "Map" \/ ~WellFormedStudent(call.studentAnswers)))
    => (result.threw /\ "report" \notin DOMAIN result)

C5_Witness ==
  /\ pc = "graded"
  /\ call.key.kind = "Map"
  /\ call.studentAnswers.kind = "object"
  /\ "answers" \notin DOMAIN call.studentAnswers
  /\ result.threw

\* C6: a candidate with a letter A-E for a question that has a clean answer
\* and no manual-review entry takes the question out of the clean answers
\* and gives it a manual-review entry with the reason "Duplicate answers
\* provided" and with both the earlier clean letter and the new letter.
C6_Step ==
  (/\ pc = "reconcile"
   /\ idx < Len(entries)
   /\ idx' = idx + 1
   /\ ~entries[idx + 1].needsManualReview
   /\ entries[idx + 1].answer \in {"A", "B", "C", "D", "E"}
   /\ MapHas(answerMap, entries[idx + 1].question)
   /\ ~MapHas(manualMap, entries[idx + 1].question))
  => LET q == entries[idx + 1].question
     IN /\ ~MapHas(answerMap', q)
        /\ MapHas(manualMap', q)
        /\ Duplicate \in Range(MapGet(manualMap', q).reasons)
        /\ MapGet(answerMap, q) \in Range(MapGet(manualMap', q).answers)
        /\ entries[idx + 1].answer \in Range(MapGet(manualMap', q).answers)

C6_Duplicate == [][C6_Step]_vars

C6_Witness ==
  /\ pc = "reconcile"
  /\ idx >= 2
  /\ entries[idx].question = entries[idx - 1].question
  /\ ~MapHas(answerMap, entries[idx].question)
  /\ MapHas(manualMap, entries[idx].question)
  /\ MapGet(manualMap, entries[idx].question).reasons = <<Duplicate>>
  /\ MapGet(manualMap, entries[idx].question).answers = <<"A", "B">>

\* C7: a candidate whose letter is outside A-E never enters the clean
\* answers: every clean answer is one of A..E, and the candidate's question
\* has a manual-review entry with the reason "Answer outside A-E" and the
\* upper-cased letter among its answers.
C7_Outside ==
  /\ pc = "reconcile" =>
       \A i \in 1..Len(answerMap) : answerMap[i].v \in {"A", "B", "C", "D", "E"}
  /\ LoopDone =>
       \A i \in 1..Len(text) :
         text[i].answerRaw = "g" =>
           LET q == ParseInt(text[i].numberRaw)
           IN /\ MapHas(manualMap, q)
              /\ OutsideAE \in Range(MapGet(manualMap, q).reasons)
              /\ "G" \in Range(MapGet(manualMap, q).answers)

C7_Witness ==
  /\ LoopDone
  /\ \E i \in 1..Len(text) :
       /\ text[i].answerRaw = "g"
       /\ text[i].numberRaw = <<2>>
       /\ ~MapHas(answerMap, 2)
       /\ MapGet(manualMap, 2).answers = <<"G">>
       /\ MapGet(manualMap, 2).reasons = <<OutsideAE>>

\* C8: every question with a clean student answer and no key entry is in the
\* report's manualReview with the reason "No answer key entry for this
\* question" and its submitted letter, and is not in incorrect, missing or
\* the correct count; also when such questions are adjacent in the clean map.
C8_NoKeyEntry ==
  Graded =>
    /\ \A i \in 1..Len(CleanOfCall) :
         CleanOfCall[i].k \notin KeyQuestions =>
           /\ CleanOfCall[i].k \in ManualQuestionsOut
           /\ NoKeyEntry \in Range(ManualItem(CleanOfCall[i].k).reasons)
           /\ CleanOfCall[i].v \in Range(ManualItem(CleanOfCall[i].k).answers)
           /\ CleanOfCall[i].k \notin IncorrectQuestions
           /\ CleanOfCall[i].k \notin MissingQuestions
    /\ result.report.correct <=
         Cardinality({q \in KeyQuestions :
                        MapGet(CleanOfCall, q) = MapGet(KeyOfCall, q)})

C8_Witness ==
  /\ Graded
  /\ Len(CleanOfCall) = 3
  /\ CleanOfCall[1].k \notin KeyQuestions
  /\ CleanOfCall[2].k \notin KeyQuestions
  /\ CleanOfCall[3].k \in KeyQuestions
  /\ {CleanOfCall[1].k, CleanOfCall[2].k} \subseteq ManualQuestionsOut
  /\ result.report.manualReviewCount = 2

\* The positions of keyText whose candidate is for question q with a letter
\* A-E.
ValidAt(q) ==
  {i \in 1..Len(keyText) :
     /\ ParseInt(keyText[i].numberRaw) = q
     /\ keyText[i].answerRaw \in {"a", "B"}}

FirstValidAt(q) == CHOOSE i \in ValidAt(q) : \A j \in ValidAt(q) : i <= j

\* C9: parseKeyText maps each question to the letter of the first candidate,
\* in text order, with a letter A-E for that question; later candidates and
\* letters outside A-E are ignored, every value is one of A..E, and the key
\* size is the number of questions with at least one valid candidate.
C9_FirstWins ==
  pc = "loaded" =>
    /\ \A q \in 0..MaxQuestion : MapHas(key, q) <=> ValidAt(q) # {}
    /\ \A i \in 1..Len(key) :
         /\ key[i].v \in {"A", "B", "C", "D", "E"}
         /\ keyText[FirstValidAt(key[i].k)].answerRaw = "a" => key[i].v = "A"
         /\ keyText[FirstValidAt(key[i].k)].answerRaw = "B" => key[i].v = "B"
    /\ Len(key) = Cardinality({q \in 0..MaxQuestion : ValidAt(q) # {}})

C9_Witness ==
  /\ pc = "loaded"
  /\ Len(keyText) = 2
  /\ keyText[1] = [numberRaw |-> <<0, 1>>, answerRaw |-> "B"]
  /\ keyText[2] = [numberRaw |-> <<1>>, answerRaw |-> "a"]
  /\ key = <<[k |-> 1, v |-> "B"]>>

\* C10: a key question that is in manual review adds to none of the correct
\* count, the incorrect list and the missing list, also when one of its
\* recorded answers is the key letter or it still has a clean answer; it is
\* in the manualReview of the report.
C10_ManualExcluded ==
  Graded =>
    /\ \A i \in 1..Len(ManualOfCall) :
         ManualOfCall[i].question \in ManualQuestionsOut
    /\ \A q \in KeyQuestions \cap ManualQuestionsOut :
         q \notin IncorrectQuestions /\ q \notin MissingQuestions
    /\ result.report.correct =
         Cardinality({q \in KeyQuestions \ ManualQuestionsOut :
                        MapGet(CleanOfCall, q) = MapGet(KeyOfCall, q)})

C10_Witness ==
  /\ Graded
  /\ \E i \in 1..Len(ManualOfCall) :
       LET q == ManualOfCall[i].question
       IN /\ q \in KeyQuestions
          /\ MapGet(CleanOfCall, q) = MapGet(KeyOfCall, q)
          /\ MapGet(KeyOfCall, q) \in Range(ManualItem(q).answers)
          /\ result.report.correct = 0
          /\ result.report.incorrectCount = 0
          /\ result.report.missingCount = 0

\* The characters of the text handed to the parser, when it is a string.
SourceChars == IF source.kind = "string" THEN source.chars ELSE <<>>

\* The text is blank, or the scanner's pattern matches nowhere in it.
NoPattern ==
  /\ source.kind = "string"
  /\ \/ \A i \in 1..Len(source.chars) : source.chars[i] \in Space
     \/ matchAll(source.chars) = <<>>

\* C11: for a blank text or a text with no recognizable pattern,
\* parseStudentAnswers returns an empty answers map and an empty
\* manual-review list, and the report of grading that result against a key
\* lists every key question as missing, has correct = 0, no incorrect and no
\* manual-review entries, and percent = 0, whatever skipMissing is.
C11_EmptyInput ==
  /\ (pc \in {"parsed", "graded"} /\ NoPattern) => student = NoStudent
  /\ (pc = "graded" /\ NoPattern) =>
       /\ ~result.threw
       /\ MissingQuestions = KeyQuestions
       /\ Len(result.report.missing) = Len(KeyOfCall)
       /\ result.report.missingCount = Len(KeyOfCall)
       /\ result.report.correct = 0
       /\ result.report.incorrect = <<>>
       /\ result.report.manualReview = <<>>
       /\ result.report.percent = Zero

C11_Witness ==
  /\ pc = "graded"
  /\ NoPattern
  /\ \E i \in 1..Len(source.chars) : source.chars[i] \in Digit
  /\ \E i \in 1..Len(source.chars) : source.chars[i] \in Letter
  /\ call.skipMissing = "true"
  /\ Len(result.report.missing) >= 2
  /\ result.report.percent = Zero

NumberedToken(n) ==
  /\ source.kind = "string"
  /\ Len(source.chars) > n
  /\ \A i \in 1..n : source.chars[i] \in Digit
  /\ ParseInt([i \in 1..n |-> DigitValue(source.chars[i])]) >= 1
  /\ source.chars[n + 1] \in Separator
  /\ \A i \in (n + 2)..Len(source.chars) : source.chars[i] \in Letter \cup {"("}
  /\ ~(Len(source.chars) = n + 2 /\ source.chars[n + 2] \in Letter)

\* C13: a question number followed by a separator and an answer token that
\* is not a single letter is not dropped: parseStudentAnswers puts the
\* question in manual review with the reason "Non-standard answer format"
\* and the token among its answers, and leaves the clean answers alone.
C13_NotDropped ==
  \A n \in 1..MaxDigits :
    (pc = "parsed" /\ NumberedToken(n)) =>
      /\ student.answers = <<>>
      /\ \E i \in 1..Len(student.manualReview) :
           /\ student.manualReview[i].question =
                ParseInt([j \in 1..n |-> DigitValue(source.chars[j])])
           /\ NonStandard \in Range(student.manualReview[i].reasons)
           /\ student.manualReview[i].answers # <<>>

\* The separator characters the formats are described with.
ListedSeparators == {":", ".", ")", "]", "-"}

\* s is a supported separator: nothing, white space alone, or one to three
\* separator characters with optional white space around them.
Separation(s) ==
  \E a \in 0..Len(s), p \in 0..MaxSeparators :
    /\ a + p <= Len(s)
    /\ \A i \in 1..a : s[i] \in Space
    /\ \A i \in (a + 1)..(a + p) : s[i] \in ListedSeparators
    /\ \A i \in (a + p + 1)..Len(s) : s[i] \in Space
    /\ p = 0 => a = Len(s)

\* The text is one answer line: a number of n digits, after an opening
\* parenthesis if o = 1, a supported separator and a letter A-E in either
\* case, at the end of the text or, if e = 1, before white space.
AnswerLine(o, n, e) ==
  LET c == source.chars
      l == Len(c) - e
  IN /\ source.kind = "string"
     /\ l >= o + n + 1
     /\ o = 1 => c[1] = "("
     /\ \A i \in (o + 1)..(o + n) : c[i] \in Digit
     /\ Separation(SubSeq(c, o + n + 1, l - 1))
     /\ c[l] \in Letter
     /\ ToUpperCase(c[l]) \in VALID_CHOICES
     /\ e = 1 => c[Len(c)] \in Space

\* C14: for a question number of one to three digits followed by a single
\* letter A-E in either case, at the end of the line or before white space,
\* parseStudentAnswers records the upper-cased letter as the clean answer of
\* the question for every supported separator: none, white space alone, one
\* to three of : . ) ] - with optional white space around them, and a
\* number in parentheses.
C14_Separators ==
  \A o \in 0..1, n \in 1..MaxDigits, e \in 0..1 :
    (pc = "parsed" /\ AnswerLine(o, n, e)) =>
      /\ student.answers =
           <<[k |-> ParseInt([i \in 1..n |-> DigitValue(source.chars[o + i])]),
              v |-> ToUpperCase(source.chars[Len(source.chars) - e])]>>
      /\ student.manualReview = <<>>

C14_Witness ==
  /\ pc = "parsed"
  /\ source = JSString(<<"(", "1", ")", " ", "a">>)
  /\ student.answers = <<[k |-> 1, v |-> "A"]>>

\* The number of letters in the text handed to the parser.
LettersWritten == Cardinality({i \in 1..Len(SourceChars) : SourceChars[i] \in Letter})

\* C15: parseKeyText and parseStudentAnswers return normally for every
\* input text, the empty text, white space, null, undefined and a text
\* without any match included; a text that is not well formed only gives
\* fewer candidates, never more questions than it holds letters.
C15_NeverThrows ==
  /\ pc # "failed"
  /\ result = <<>>
  /\ pc = "parsed" =>
       Len(student.answers) + Len(student.manualReview) <= LettersWritten
  /\ pc = "loaded" => Len(key) <= LettersWritten

C15_Witness ==
  /\ pc = "parsed"
  /\ source = JSNull
  /\ student = NoStudent

\* C16: grade has no effect on its arguments: after it returns, the key
\* Map, the studentAnswers.answers Map and every entry of
\* studentAnswers.manualReview hold what they held before the call, also
\* when clean answers without a key entry were moved into manual review,
\* and grading the same reconciler result again gives an equal report.
C16_ArgumentsKept ==
  /\ pc \in {"graded", "regraded"} =>
       /\ JSMap(key) = call.key
       /\ JSMap(student.answers) = call.studentAnswers.answers
       /\ JSArray(student.manualReview) = call.studentAnswers.manualReview
  /\ pc = "regraded" => history[2] = history[1]

C16_Witness ==
  /\ pc = "regraded"
  /\ ~result.threw
  /\ \E i \in 1..Len(CleanOfCall) : CleanOfCall[i].k \notin KeyQuestions
  /\ \E i \in 1..Len(ManualOfCall) : ManualOfCall[i].question \notin KeyQuestions
  /\ KeyOfCall # <<>>

\* The positive integers of one to three digits.
QuestionNumbers == 1..(10^MaxDigits - 1)

\* C17: every question number that parseKeyText puts in the key, and every
\* question number that parseStudentAnswers puts in the clean answers or in
\* the manual-review list, is a positive integer of one to three digits;
\* 0 and numbers of four or more digits never appear.
C17_QuestionRange ==
  /\ pc = "loaded" => MapKeys(key) \subseteq QuestionNumbers
  /\ pc = "parsed" =>
       /\ MapKeys(student.answers) \subseteq QuestionNumbers
       /\ \A i \in 1..Len(student.manualReview) :
            student.manualReview[i].question \in QuestionNumbers

\* C18: in parseStudentAnswers, a candidate with a letter A-E for a question
\* that is already in manual review adds the letter to the answers of that
\* entry, leaves the entry's reasons and every other entry as they were, and
\* leaves the clean answers unchanged.
C18_Step ==
  (/\ pc = "reconcile"
   /\ idx < Len(entries)
   /\ idx' = idx + 1
   /\ ~entries[idx + 1].needsManualReview
   /\ entries[idx + 1].answer \in {"A", "B", "C", "D", "E"}
   /\ MapHas(manualMap, entries[idx + 1].question))
  => LET q == entries[idx + 1].question
         before == MapGet(manualMap, q)
         after == MapGet(manualMap', q)
     IN /\ answerMap' = answerMap
        /\ Len(manualMap') = Len(manualMap)
        /\ \A i \in 1..Len(manualMap) :
             manualMap[i].k # q => manualMap'[i] = manualMap[i]
        /\ MapHas(manualMap', q)
        /\ after.reasons = before.reasons
        /\ after.answers =
             IF entries[idx + 1].answer \in Range(before.answers)
               THEN before.answers
               ELSE Append(before.answers, entries[idx + 1].answer)

C18_AlreadyManual == [][C18_Step]_vars

C18_Witness ==
  /\ pc = "reconcile"
  /\ idx >= 2
  /\ entries[idx].question = entries[idx - 1].question
  /\ entries[idx].answer = "A"
  /\ ~MapHas(answerMap, entries[idx].question)
  /\ MapHas(manualMap, entries[idx].question)
  /\ MapGet(manualMap, entries[idx].question).reasons = <<OutsideAE>>
  /\ MapGet(manualMap, entries[idx].question).answers = <<"G", "A">>

\* The candidates of the text for question q whose letter is one of A-E.
ValidCandidates(q) ==
  {i \in 1..Len(text) :
     /\ ParseInt(text[i].numberRaw) = q
     /\ ToUpperCase(text[i].answerRaw) \in {"A", "B", "C", "D", "E"}}

\* C19: every value of the clean answers that parseStudentAnswers returns is
\* one of A, B, C, D, E, and a question is among them only if the text holds
\* exactly one candidate with a letter A-E for it: a question with two or
\* more such candidates is never in the clean answers at the end.
C19_SingleValid ==
  LoopDone =>
    /\ \A i \in 1..Len(answerMap) :
         /\ answerMap[i].v \in {"A", "B", "C", "D", "E"}
         /\ Cardinality(ValidCandidates(answerMap[i].k)) = 1
    /\ \A i \in 1..Len(text) :
         Cardinality(ValidCandidates(ParseInt(text[i].numberRaw))) >= 2
           => ~MapHas(answerMap, ParseInt(text[i].numberRaw))

\* s is in strictly ascending order.
Ascending(s) == \A i, j \in 1..Len(s) : i < j => s[i] < s[j]

\* C20: grade visits the question numbers of the key in ascending numeric
\* order whatever the insertion order of the key Map: the missing list and
\* the incorrect list of every report are in strictly ascending order of
\* question number.
C20_AscendingLists ==
  Graded =>
    /\ Ascending(result.report.missing)
    /\ Ascending([i \in 1..Len(result.report.incorrect) |->
                    result.report.incorrect[i].question])

\* The reasons in the order of their UTF-16 code units: "Answer outside
\* A-E", "Duplicate answers provided", "No answer key entry for this
\* question", "Non-standard answer format".
ReasonsInOrder == <<OutsideAE, Duplicate, NoKeyEntry, NonStandard>>

ReasonRank(r) == CHOOSE i \in 1..Len(ReasonsInOrder) : ReasonsInOrder[i] = r

\* C21: in every report of grade the manualReview list has one entry per
\* question in strictly ascending order of question number, and the answers
\* and the reasons of each entry are duplicate-free and in sorted order,
\* whatever the order they were recorded in.
C21_SortedManualReview ==
  Graded =>
    LET items == result.report.manualReview
    IN /\ Ascending([i \in 1..Len(items) |-> items[i].question])
       /\ \A i \in 1..Len(items) :
            /\ Ascending([j \in 1..Len(items[i].answers) |->
                            CodeUnit(items[i].answers[j])])
            /\ Ascending([j \in 1..Len(items[i].reasons) |->
                            ReasonRank(items[i].reasons[j])])

\* The questions of the clean answers handed to grade that have a key
\* entry: the ones that keep their clean answer through the cross-check.
StillClean == MapKeys(CleanOfCall) \cap KeyQuestions

\* The questions of the manual-review list handed to grade.
ManualQuestionsOfCall == {ManualOfCall[i].question : i \in 1..Len(ManualOfCall)}

\* C22: in every report of grade, attemptedQuestions is exactly the union of
\* the questions that still have a clean answer after the cross-check and
\* the questions of manualReview, each listed once, in strictly ascending
\* order; every question that parseStudentAnswers put in answers or in
\* manualReview is in it.
C22_Attempted ==
  Graded =>
    /\ Range(result.report.attemptedQuestions) = StillClean \cup ManualQuestionsOut
    /\ Ascending(result.report.attemptedQuestions)
    /\ MapKeys(CleanOfCall) \cup ManualQuestionsOfCall
         \subseteq Range(result.report.attemptedQuestions)

C22_Witness ==
  /\ Graded
  /\ Len(result.report.attemptedQuestions) = 3
  /\ StillClean # {}
  /\ MapKeys(CleanOfCall) \ KeyQuestions # {}
  /\ ManualQuestionsOfCall # {}

\* The key questions that are not in manual review and have a clean answer.
Gradable ==
  {q \in KeyQuestions : q \notin ManualQuestionsOut /\ MapHas(CleanOfCall, q)}

\* The gradable questions whose clean letter is the key's letter.
Matching == {q \in Gradable : MapGet(CleanOfCall, q) = MapGet(KeyOfCall, q)}

\* C23: for every key question that is not in manual review and has a clean
\* answer, grade counts it correct exactly when the clean letter equals the
\* key's letter and otherwise adds one entry to incorrect with the question,
\* the key's letter as correctAnswer and the clean letter as studentAnswer;
\* correct is the number of matching questions and incorrectCount the
\* length of incorrect.
C23_Compared ==
  Graded =>
    /\ result.report.correct = Cardinality(Matching)
    /\ Len(result.report.incorrect) = Cardinality(Gradable \ Matching)
    /\ result.report.incorrectCount = Len(result.report.incorrect)
    /\ \A q \in Gradable \ Matching :
         \E i \in 1..Len(result.report.incorrect) :
           result.report.incorrect[i] =
             [question |-> q,
              correctAnswer |-> MapGet(KeyOfCall, q),
              studentAnswer |-> MapGet(CleanOfCall, q)]

C23_Witness ==
  /\ Graded
  /\ result.report.correct >= 1
  /\ result.report.incorrectCount >= 1
  /\ result.report.manualReviewCount >= 1

\* The text is a number of n digits, a supported separator or none, and a
\* word of w letters, w >= 2.
NumberAndWord(n, w) ==
  LET c == source.chars
  IN /\ source.kind = "string"
     /\ Len(c) >= n + w
     /\ \A i \in 1..n : c[i] \in Digit
     /\ Separation(SubSeq(c, n + 1, Len(c) - w))
     /\ \A i \in (Len(c) - w + 1)..Len(c) : c[i] \in Letter

\* C24: a number followed, with or without a separator, by a word of two or
\* more letters yields no question/answer pair: the text adds no question to
\* the clean answers, to the manual-review list or to a key.
C24_WordsAreNoAnswers ==
  \A n \in 1..MaxDigits, w \in 2..MaxChars :
    NumberAndWord(n, w) =>
      /\ pc = "parsed" => student = NoStudent
      /\ pc = "loaded" => key = <<>>

C24_Witness ==
  /\ pc = "parsed"
  /\ source = JSString(<<"1", ")", " ", "a", "B">>)
  /\ student = NoStudent

\* s is the beginning of t.
Prefix(s, t) == Len(s) <= Len(t) /\ SubSeq(t, 1, Len(s)) = s

\* C25: during the loop of parseStudentAnswers a question only moves forward,
\* from unseen to clean to manual review or from unseen to manual review:
\* a clean answer is only taken away together with a manual-review entry
\* being there, and once a question has a manual-review entry no later
\* candidate removes the entry or gives the question a clean answer, and
\* the answers and reasons of the entry only grow.
C25_Step ==
  (pc = "reconcile" /\ pc' = "reconcile") =>
    /\ \A q \in MapKeys(answerMap) :
         MapHas(answerMap', q) \/ MapHas(manualMap', q)
    /\ \A q \in MapKeys(manualMap) :
         /\ MapHas(manualMap', q)
         /\ Prefix(MapGet(manualMap, q).answers, MapGet(manualMap', q).answers)
         /\ Prefix(MapGet(manualMap, q).reasons, MapGet(manualMap', q).reasons)
         /\ MapHas(answerMap', q) =>
              /\ MapHas(answerMap, q)
              /\ MapGet(answerMap', q) = MapGet(answerMap, q)

C25_Forward == [][C25_Step]_vars

C25_Witness ==
  /\ pc = "reconcile"
  /\ idx = 3
  /\ ~MapHas(answerMap, 1)
  /\ MapHas(manualMap, 1)
  /\ MapGet(manualMap, 1).answers = <<"A", "B", "G">>
  /\ MapGet(manualMap, 1).reasons = <<Duplicate, OutsideAE>>

\* The candidates of the text for question q.
Candidates(q) == {i \in 1..Len(text) : ParseInt(text[i].numberRaw) = q}

\* C26: in parseStudentAnswers a question that gets the same letter A-E
\* twice or more, and no other answer, is treated like a conflict: at the
\* end it is not in the clean answers and is in manual review with the
\* reason "Duplicate answers provided" and an answers list of that single
\* letter.
C26_Repeated ==
  LoopDone =>
    \A q \in 1..MaxQuestion, letter \in {"A", "B", "C", "D", "E"} :
      (/\ Cardinality(Candidates(q)) >= 2
       /\ \A i \in Candidates(q) : ToUpperCase(text[i].answerRaw) = letter)
      => /\ ~MapHas(answerMap, q)
         /\ MapHas(manualMap, q)
         /\ MapGet(manualMap, q).reasons = <<Duplicate>>
         /\ MapGet(manualMap, q).answers = <<letter>>

C26_Witness ==
  /\ LoopDone
  /\ Cardinality(Candidates(2)) = 3
  /\ \A i \in Candidates(2) : text[i].answerRaw = "B"
  /\ ~MapHas(answerMap, 2)
  /\ MapGet(manualMap, 2).answers = <<"B">>
  /\ MapGet(manualMap, 2).reasons = <<Duplicate>>

\* C27: every report of grade has 0 <= correct <= denominator <= total and
\* 0 <= missingCount <= total, whatever skipMissing is, so that percent is
\* never below 0 or above 100.
C27_Bounds ==
  Graded =>
    LET r == result.report
    IN /\ 0 <= r.correct
       /\ r.correct <= r.denominator
       /\ r.denominator <= r.total
       /\ 0 <= r.missingCount
       /\ r.missingCount <= r.total
       /\ r.percent.den > 0
       /\ 0 <= r.percent.num
       /\ r.percent.num <= 100 * r.percent.den

C27_Witness ==
  /\ Graded
  /\ call.skipMissing = "true"
  /\ result.report.correct >= 1
  /\ result.report.correct = result.report.denominator
  /\ result.report.denominator < result.report.total
  /\ result.report.percent = [num |-> 100, den |-> 1]

\* C28: in every report of grade the missing list is exactly the set of the
\* key questions that are not in attemptedQuestions: no question is both
\* missing and attempted, and every key question that is neither in manual
\* review nor cleanly answered is missing, once.
C28_MissingOrAttempted ==
  Graded =>
    /\ MissingQuestions = KeyQuestions \ Range(result.report.attemptedQuestions)
    /\ Len(result.report.missing) = Cardinality(MissingQuestions)
    /\ \A q \in KeyQuestions :
         (q \notin ManualQuestionsOut /\ ~MapHas(CleanOfCall, q))
           => q \in MissingQuestions

C28_Witness ==
  /\ Graded
  /\ Len(result.report.missing) = 1
  /\ KeyQuestions \cap ManualQuestionsOut # {}
  /\ Gradable # {}

\* The matches of the scanner's pattern in the text handed to the parsers.
MatchesWritten == matchAll(SourceChars)

\* Every question number of the text occurs once, with a letter A-E.
OnceEach ==
  /\ \A i, j \in 1..Len(MatchesWritten) :
       ParseInt(MatchesWritten[i].numberRaw) = ParseInt(MatchesWritten[j].numberRaw)
         => i = j
  /\ \A i \in 1..Len(MatchesWritten) :
       MatchesWritten[i].answerRaw
         \in {"A", "B", "C", "D", "E", "a", "b", "c", "d", "e"}

\* C29: for a text in which every question number occurs once with a letter
\* A-E in a recognized format, grading parseStudentAnswers(text) against
\* parseKeyText(text) gives correct = total = the number of questions, empty
\* incorrect, missing and manualReview lists, and a denominator equal to
\* total, whatever skipMissing is.
C29_SelfGrade ==
  (pc = "graded" /\ OnceEach) =>
    /\ ~result.threw
    /\ result.report.total = Len(MatchesWritten)
    /\ result.report.correct = result.report.total
    /\ result.report.incorrect = <<>>
    /\ result.report.missing = <<>>
    /\ result.report.manualReview = <<>>
    /\ result.report.denominator = result.report.total

C29_Witness ==
  /\ pc = "graded"
  /\ OnceEach
  /\ call.skipMissing = "true"
  /\ result.report.total = 2
  /\ result.report.correct = 2

\* ------------------------------- one submission graded with both options

InitOption ==
  /\ worksheets = Keys
  /\ pc = "parsed"
  /\ keyText = <<>>
  /\ key = <<>>
  /\ text = <<>>
  /\ entries = <<>>
  /\ idx = 0
  /\ answerMap = <<>>
  /\ manualMap = <<>>
  /\ student \in {parseStudentAnswers(t) : t \in TextsUpTo(MaxEntries)}
  /\ call = <<>>
  /\ result = <<>>
  /\ source = <<>>
  /\ history = <<>>

\* The other setting of the skipMissing checkbox.
OtherOption(skipMissing) ==
  IF SkipMissingDefault(skipMissing) THEN "false" ELSE "true"

\* grade once more on the key and the reconciler result of the first call,
\* with skipMissing the other way round.
GradeOtherOption ==
  /\ pc = "graded"
  /\ \E skipMissing \in {OtherOption(call.skipMissing)} :
       /\ call' = [call EXCEPT !.skipMissing = skipMissing]
       /\ result' = grade(call.key, call.studentAnswers, skipMissing)
  /\ pc' = "both"
  /\ history' = Append(history, result')
  /\ UNCHANGED <<keyText, key, worksheets, text, entries, idx, answerMap, manualMap,
                 student, source>>

NextOption == Grade \/ GradeOtherOption

SpecOption == InitOption /\ [][NextOption]_vars

\* C30: when grade has been called twice with the same key and the same
\* reconciler result, once with skipMissing true and once with false, the two
\* reports have equal total, correct, incorrect, incorrectCount, missing,
\* missingCount, manualReview, manualReviewCount and attemptedQuestions.
C30_OnlyDenominator ==
  (pc = "both" /\ \A i \in 1..2 : ~history[i].threw) =>
    LET one == history[1].report
        other == history[2].report
    IN /\ one.total = other.total
       /\ one.correct = other.correct
       /\ one.incorrect = other.incorrect
       /\ one.incorrectCount = other.incorrectCount
       /\ one.missing = other.missing
       /\ one.missingCount = other.missingCount
       /\ one.manualReview = other.manualReview
       /\ one.manualReviewCount = other.manualReviewCount
       /\ one.attemptedQuestions = other.attemptedQuestions

\* Both calls returned, some question is missing and something is correct, so
\* that denominator and percent differ between the two reports.
C30_Witness ==
  /\ pc = "both"
  /\ \A i \in 1..2 : ~history[i].threw
  /\ history[1].report.missingCount > 0
  /\ history[1].report.correct > 0
  /\ history[1].report.denominator # history[2].report.denominator
  /\ history[1].report.percent # history[2].report.percent

====
